---------------------------- MODULE Spec2Model ----------------------------
(***************************************************************************)
(* A model of the trek recommendation service:                             *)
(*   src/app/recommenders/recommendation_engine.py  (the four strategies)  *)
(*   src/app/routes/recommendations.py              (the request handlers) *)
(*   src/app/models.py                              (the record store)     *)
(*                                                                         *)
(* Numbers.  The code computes in floating point.  The model computes in   *)
(* fixed point: a score, an interest, a weight or a similarity x is the    *)
(* integer x * Scale, and a division rounds down.  Thresholds on ratios    *)
(* (cost / budget > 0.9) are compared exactly by cross-multiplication.     *)
(* Money, days and metres are plain integers.  An unset (NULL) column is   *)
(* None, and an unset or unmapped tier is any string outside the tier map. *)
(***************************************************************************)
EXTENDS Integers, Sequences, FiniteSets, TLC

(* ------------------------------ bounds --------------------------------- *)

\* The catalog holds at most MaxTreks treks.
MaxTreks == 2
\* At most MaxUsers users are registered.
MaxUsers == 3
\* At most MaxRatings ratings are stored.
MaxRatings == 3

\* The size of the population in which peers are looked for.
PeerCount == 7

\* The size of the catalog in which the order of a list is examined.
CatalogSize == 3

(* --------------------------- number model ------------------------------ *)

\* The fixed-point unit: the float 1.0.
Scale == 10 * 10 * 10

\* A NULL column (Python None).
None == 0 - 1

\* bool(x) of a numeric column: None and 0 are falsy.
Truthy(x) == x # None /\ x # 0

Abs(x) == IF x < 0 THEN 0 - x ELSE x

Min(a, b) == IF a <= b THEN a ELSE b

Max(a, b) == IF a >= b THEN a ELSE b

\* a / b rounded down, for any b # 0.
Div(a, b) == IF b > 0 THEN a \div b ELSE (0 - a) \div (0 - b)

\* The product of two fixed-point numbers.
FMul(a, b) == Div(a * b, Scale)

RECURSIVE SqrtSearch(_, _, _)
\* The largest r in lo..hi with r * r <= n (lo * lo <= n is given).
SqrtSearch(n, lo, hi) ==
    IF lo >= hi THEN lo
    ELSE LET mid == (lo + hi + 1) \div 2
         IN  IF mid * mid <= n THEN SqrtSearch(n, mid, hi)
             ELSE SqrtSearch(n, lo, mid - 1)

\* The square root of n rounded up, 0 <= n < 2^31.
CeilSqrt(n) ==
    LET r == SqrtSearch(n, 0, 46340)
    IN  IF r * r = n THEN r ELSE r + 1

RECURSIVE SumSeq(_)
SumSeq(s) == IF s = <<>> THEN 0 ELSE Head(s) + SumSeq(Tail(s))

RECURSIVE MaxSeq(_)
\* max() of a non-empty sequence of numbers.
MaxSeq(s) == IF Len(s) = 1 THEN s[1] ELSE Max(Head(s), MaxSeq(Tail(s)))

\* seq[:k], the Python slice: a negative k drops the last -k elements.
Slice(seq, k) ==
    LET n == IF k >= 0 THEN Min(k, Len(seq)) ELSE Max(Len(seq) + k, 0)
    IN  SubSeq(seq, 1, n)

RECURSIVE InsertDesc(_, _)
\* e inserted into a list sorted by score descending, behind every entry
\* whose score is >= e.score: one step of a stable sort.
InsertDesc(sorted, e) ==
    IF sorted = <<>> THEN <<e>>
    ELSE IF Head(sorted).score >= e.score
         THEN <<Head(sorted)>> \o InsertDesc(Tail(sorted), e)
         ELSE <<e>> \o sorted

RECURSIVE SortDesc(_)
\* list.sort(key=lambda x: x[1], reverse=True): stable, so entries of equal
\* score keep their order.
SortDesc(list) ==
    IF list = <<>> THEN <<>>
    ELSE InsertDesc(SortDesc(SubSeq(list, 1, Len(list) - 1)), list[Len(list)])

(* ------------------------------ the tiers ------------------------------ *)

\* difficulty_levels.get(user.experience_level, 2)
DifficultyLevels(level) ==
    CASE level = "Beginner" -> 1
      [] level = "Intermediate" -> 2
      [] level = "Advanced" -> 3
      [] level = "Expert" -> 4
      [] OTHER -> 2

\* trek_difficulty.get(trek.difficulty, 2)
TrekDifficulty(difficulty) ==
    CASE difficulty = "Easy" -> 1
      [] difficulty = "Moderate" -> 2
      [] difficulty = "Hard" -> 3
      [] difficulty = "Very Hard" -> 4
      [] OTHER -> 2

\* experience_map.get(level, 0.5)
ExperienceMap(level) ==
    CASE level = "Beginner" -> 250
      [] level = "Intermediate" -> 500
      [] level = "Advanced" -> 750
      [] level = "Expert" -> 1000
      [] OTHER -> 500

\* fitness_map.get(level, 0.5)
FitnessMap(level) ==
    CASE level = "Low" -> 250
      [] level = "Moderate" -> 500
      [] level = "High" -> 750
      [] level = "Very High" -> 1000
      [] OTHER -> 500

\* difficulty_map.get(difficulty, 0.5)
DifficultyMap(difficulty) ==
    CASE difficulty = "Easy" -> 250
      [] difficulty = "Moderate" -> 500
      [] difficulty = "Hard" -> 750
      [] difficulty = "Very Hard" -> 1000
      [] OTHER -> 500

(* --------------------------- Constraint Filter -------------------------- *)

\* _meets_hard_constraints admitting a trek up to two tiers above the user.
MeetsHardConstraintsTwoAbove(user, trek) ==
    IF Truthy(trek.cost_min) /\ Truthy(user.budget_max)
       /\ trek.cost_min > user.budget_max
    THEN FALSE
    ELSE IF Truthy(trek.duration_days) /\ Truthy(user.available_days)
            /\ trek.duration_days > user.available_days
    THEN FALSE
    ELSE IF TrekDifficulty(trek.difficulty)
            > DifficultyLevels(user.experience_level) + 2
    THEN FALSE
    ELSE TRUE

\* _meets_hard_constraints
MeetsHardConstraints(user, trek) ==
    IF Truthy(trek.cost_min) /\ Truthy(user.budget_max)
       /\ trek.cost_min > user.budget_max
    THEN FALSE
    ELSE IF Truthy(trek.duration_days) /\ Truthy(user.available_days)
            /\ trek.duration_days > user.available_days
    THEN FALSE
    ELSE IF TrekDifficulty(trek.difficulty)
            > DifficultyLevels(user.experience_level) + 1
    THEN FALSE
    ELSE TRUE

\* _calculate_soft_penalty with 0.20 for a ratio over 0.9 on top of the 0.05
\* for one over 0.7, and no cap.
CalculateSoftPenaltyUncapped(user, trek) ==
    LET cost == IF Truthy(trek.cost_min) THEN trek.cost_min ELSE 0
        costPenalty ==
            IF Truthy(user.budget_max) /\ user.budget_max > 0
            THEN (IF cost * 10 > 9 * user.budget_max THEN 150 ELSE 0)
                 + (IF cost * 10 > 7 * user.budget_max THEN 50 ELSE 0)
            ELSE 0
        duration == IF Truthy(trek.duration_days) THEN trek.duration_days ELSE 0
        durationPenalty ==
            IF Truthy(user.available_days) /\ user.available_days > 0
            THEN (IF duration * 100 > 95 * user.available_days THEN 150 ELSE 0)
                 + (IF duration * 10 > 7 * user.available_days THEN 50 ELSE 0)
            ELSE 0
    IN  costPenalty + durationPenalty

\* _calculate_soft_penalty
CalculateSoftPenalty(user, trek) ==
    LET cost == IF Truthy(trek.cost_min) THEN trek.cost_min ELSE 0
        costPenalty ==
            IF Truthy(user.budget_max) /\ user.budget_max > 0
            THEN IF cost * 10 > 9 * user.budget_max THEN 150
                 ELSE IF cost * 10 > 7 * user.budget_max THEN 50
                 ELSE 0
            ELSE 0
        duration == IF Truthy(trek.duration_days) THEN trek.duration_days ELSE 0
        durationPenalty ==
            IF Truthy(user.available_days) /\ user.available_days > 0
            THEN IF duration * 100 > 95 * user.available_days THEN 150
                 ELSE IF duration * 10 > 7 * user.available_days THEN 50
                 ELSE 0
            ELSE 0
    IN  Min(costPenalty + durationPenalty, 300)

(* --------------------------- Feature Vectorizer ------------------------- *)

\* sorted(vector.keys()): the order of the numeric arrays.
SortedKeys ==
    <<"adventure_interest", "altitude_exp", "cultural_interest",
      "experience", "fitness", "nature_interest">>

\* _build_user_vector
BuildUserVector(user) ==
    [experience |-> ExperienceMap(user.experience_level),
     fitness |-> FitnessMap(user.fitness_level),
     altitude_exp |-> Min(Div(user.altitude_experience * Scale, 6000), Scale),
     cultural_interest |-> user.cultural_interest,
     nature_interest |-> user.nature_interest,
     adventure_interest |-> user.adventure_interest]

\* _build_trek_vector
BuildTrekVector(trek) ==
    [experience |-> DifficultyMap(trek.difficulty),
     fitness |-> DifficultyMap(trek.difficulty),
     altitude_exp |-> IF Truthy(trek.max_altitude)
                      THEN Min(Div(trek.max_altitude * Scale, 6000), Scale)
                      ELSE 500,
     cultural_interest |-> IF Truthy(trek.cultural_score)
                           THEN trek.cultural_score ELSE 500,
     nature_interest |-> IF Truthy(trek.nature_score)
                         THEN trek.nature_score ELSE 500,
     adventure_interest |-> IF Truthy(trek.adventure_score)
                            THEN trek.adventure_score ELSE 500]

\* np.array([vector.get(k, 0) for k in sorted(vector.keys())]).  A component
\* is kept in twentieths (x * Scale / 50) so that the products of
\* CosineSimilarity stay below 2^31.
VectorArray(vector) == [i \in 1..6 |-> Div(vector[SortedKeys[i]], 50)]

Dot(a, b) == SumSeq([i \in 1..6 |-> a[i] * b[i]])

\* sklearn's cosine_similarity of two arrays: 0 when one of them is all zero,
\* else dot / (|a| |b|), here rounded down to within 1/16 of a unit.
CosineSimilarity(a, b) ==
    IF Dot(a, a) = 0 \/ Dot(b, b) = 0 THEN 0
    ELSE Div(Dot(a, b) * Scale * 16, CeilSqrt(Dot(a, a) * Dot(b, b) * 256))


(* ------------------------------ the store ------------------------------ *)

\* treks:   the treks table, in id order; a trek's id is its position.
\* users:   the users table, in id order; a user's id is its position.
\* ratings: the ratings table, a set of [user_id, trek_id, rating] rows, at
\*          most one per user and trek.
\* res:     the request being answered: the call made and what it returned.
\* cache:   the engine's self.cache.
\* first:   when a call is made a second time, the answer of the first call.
\* flight:  the hybrid request that has loaded its rows and not yet scored.
VARIABLES treks, users, ratings, res, cache, first, flight

vars == <<treks, users, ratings, res, cache, first, flight>>

\* Trek.query.get finding a row for every id.
TrekQueryGetAny(trek_id) ==
    IF trek_id \in 1..Len(treks) THEN treks[trek_id] ELSE [id |-> trek_id]

\* Trek.query.get(trek_id): the row; no row (None) is the record of id None.
TrekQueryGet(trek_id) ==
    IF trek_id \in 1..Len(treks) THEN treks[trek_id] ELSE [id |-> None]

RECURSIVE RatingsUpTo(_, _)
RatingsUpTo(user_id, n) ==
    IF n = 0 THEN <<>>
    ELSE LET rows == {r \in ratings : r.user_id = user_id /\ r.trek_id = n}
         IN  RatingsUpTo(user_id, n - 1)
             \o (IF rows = {} THEN <<>> ELSE <<CHOOSE r \in rows : TRUE>>)

\* user.ratings: the user's rating rows, here listed by trek id.  A row may
\* name a trek that is not in the catalog (create_rating checks no id).
RatingsOf(user_id) == RatingsUpTo(user_id, MaxTreks)

(* ------------------------ Content-Based Strategy ------------------------ *)

\* One iteration of the loop of content_based_recommend, for a trek that
\* passed the filter.
ContentEntry(user, trek) ==
    LET similarity == CosineSimilarity(VectorArray(BuildUserVector(user)),
                                       VectorArray(BuildTrekVector(trek)))
        penalty == CalculateSoftPenalty(user, trek)
    IN  [trek |-> trek.id,
         score |-> FMul(similarity, Scale - penalty),
         similarity |-> similarity]

\* content_based_recommend keeping state between calls: a list is served once,
\* while no answer is held.
ContentBasedRecommendOnce(user, all_treks, top_k) ==
    LET passing ==
            IF res.op = "idle"
            THEN SelectSeq(all_treks, LAMBDA t : MeetsHardConstraints(user, t))
            ELSE <<>>
        recommendations ==
            [i \in 1..Len(passing) |-> ContentEntry(user, passing[i])]
    IN  Slice(SortDesc(recommendations), top_k)

\* content_based_recommend without the Constraint Filter.
ContentBasedRecommendUnfiltered(user, all_treks, top_k) ==
    LET recommendations ==
            [i \in 1..Len(all_treks) |-> ContentEntry(user, all_treks[i])]
    IN  Slice(SortDesc(recommendations), top_k)

\* content_based_recommend going through the catalog from its last trek to
\* its first, so that of two treks of equal score the later one comes first.
ContentBasedRecommendLatestFirst(user, all_treks, top_k) ==
    LET passing == SelectSeq(all_treks, LAMBDA t : MeetsHardConstraints(user, t))
        recommendations ==
            [i \in 1..Len(passing) |->
                ContentEntry(user, passing[Len(passing) + 1 - i])]
    IN  Slice(SortDesc(recommendations), top_k)

\* content_based_recommend
ContentBasedRecommend(user, all_treks, top_k) ==
    LET passing == SelectSeq(all_treks, LAMBDA t : MeetsHardConstraints(user, t))
        recommendations ==
            [i \in 1..Len(passing) |-> ContentEntry(user, passing[i])]
    IN  Slice(SortDesc(recommendations), top_k)

(* ----------------------- Knowledge-Based Strategy ----------------------- *)

\* _score_difficulty_progression without the branch for a trek more than one
\* tier above the user.
ScoreDifficultyProgressionTwoWay(user, trek) ==
    LET user_level == DifficultyLevels(user.experience_level)
        trek_level == TrekDifficulty(trek.difficulty)
    IN  IF trek_level = user_level THEN 1000
        ELSE IF trek_level = user_level + 1 THEN 800
        ELSE 600

\* _score_difficulty_progression
ScoreDifficultyProgression(user, trek) ==
    LET user_level == DifficultyLevels(user.experience_level)
        trek_level == TrekDifficulty(trek.difficulty)
    IN  IF trek_level = user_level THEN 1000
        ELSE IF trek_level = user_level + 1 THEN 800
        ELSE IF trek_level > user_level + 1 THEN 300
        ELSE 600

\* _score_seasonal_fit; best_seasons and preferred_seasons are the sets of
\* season tokens of the stored strings, the empty set for NULL or "".
ScoreSeasonalFit(user, trek) ==
    IF trek.best_seasons = {} \/ user.preferred_seasons = {} THEN 700
    ELSE LET overlap == Cardinality(trek.best_seasons \cap user.preferred_seasons)
             total == Cardinality(trek.best_seasons \cup user.preferred_seasons)
             score == IF total > 0 THEN Div(overlap * Scale, total) ELSE 500
         IN  IF overlap * 10 > 7 * total THEN score
             ELSE IF overlap * 10 > 3 * total THEN score
             ELSE 300

\* _score_interest_alignment
ScoreInterestAlignment(user, trek) ==
    LET Or(x) == IF Truthy(x) THEN x ELSE 500
        cultural_alignment ==
            Scale - Abs(user.cultural_interest - Or(trek.cultural_score))
        nature_alignment ==
            Scale - Abs(user.nature_interest - Or(trek.nature_score))
        adventure_alignment ==
            Scale - Abs(user.adventure_interest - Or(trek.adventure_score))
    IN  Div(cultural_alignment + nature_alignment + adventure_alignment, 3)

\* _score_experience_fit
ScoreExperienceFit(user, trek) ==
    LET trek_altitude == IF Truthy(trek.max_altitude)
                         THEN trek.max_altitude ELSE 3000
        user_altitude == IF Truthy(user.altitude_experience)
                         THEN user.altitude_experience ELSE 0
        altitude_score ==
            Scale - Div(Abs(user_altitude - trek_altitude) * Scale, 6000)
    IN  Max(0, Min(altitude_score, Scale))

\* One iteration of the loop of knowledge_based_recommend, for a trek that
\* passed the filter.
KnowledgeEntry(user, trek) ==
    LET difficulty_score == ScoreDifficultyProgression(user, trek)
        seasonal_score == ScoreSeasonalFit(user, trek)
        interest_score == ScoreInterestAlignment(user, trek)
        experience_score == ScoreExperienceFit(user, trek)
    IN  [trek |-> trek.id,
         score |-> FMul(difficulty_score, 300) + FMul(seasonal_score, 200)
                   + FMul(interest_score, 250) + FMul(experience_score, 250),
         difficulty_fit |-> difficulty_score,
         seasonal_fit |-> seasonal_score,
         interest_alignment |-> interest_score,
         experience_fit |-> experience_score]

\* knowledge_based_recommend without the Constraint Filter.
KnowledgeBasedRecommendUnfiltered(user, all_treks, top_k) ==
    LET recommendations ==
            [i \in 1..Len(all_treks) |-> KnowledgeEntry(user, all_treks[i])]
    IN  Slice(SortDesc(recommendations), top_k)

\* knowledge_based_recommend
KnowledgeBasedRecommend(user, all_treks, top_k) ==
    LET passing == SelectSeq(all_treks, LAMBDA t : MeetsHardConstraints(user, t))
        recommendations ==
            [i \in 1..Len(passing) |-> KnowledgeEntry(user, passing[i])]
    IN  Slice(SortDesc(recommendations), top_k)


(* ------------------------ Collaborative Strategy ------------------------ *)

\* The top_similar argument collaborative_filtering_recommend passes.
TopSimilar == 5

\* _find_similar_users without the early return for a user with no ratings.
FindSimilarUsersOfAnyone(user, all_users, top_similar) ==
    LET others ==
            SelectSeq(all_users,
                      LAMBDA o : ~(o.id = user.id \/ RatingsOf(o.id) = <<>>))
        similarities ==
            [i \in 1..Len(others) |->
                [user |-> others[i].id,
                 score |-> CosineSimilarity(
                               VectorArray(BuildUserVector(user)),
                               VectorArray(BuildUserVector(others[i])))]]
    IN  Slice(SortDesc(similarities), top_similar)

\* _find_similar_users sorting the population from its last user to its
\* first, so that of two equally similar users the later one comes first.
FindSimilarUsersLatestFirst(user, all_users, top_similar) ==
    IF RatingsOf(user.id) = <<>> THEN <<>>
    ELSE LET others ==
                 SelectSeq(all_users,
                           LAMBDA o : ~(o.id = user.id \/ RatingsOf(o.id) = <<>>))
             similarities ==
                 [i \in 1..Len(others) |->
                     [user |-> others[Len(others) + 1 - i].id,
                      score |-> CosineSimilarity(
                                    VectorArray(BuildUserVector(user)),
                                    VectorArray(BuildUserVector(
                                        others[Len(others) + 1 - i])))]]
         IN  Slice(SortDesc(similarities), top_similar)

\* _find_similar_users: a list of [user, score], a peer's id and similarity.
FindSimilarUsers(user, all_users, top_similar) ==
    IF RatingsOf(user.id) = <<>> THEN <<>>
    ELSE LET others ==
                 SelectSeq(all_users,
                           LAMBDA o : ~(o.id = user.id \/ RatingsOf(o.id) = <<>>))
             similarities ==
                 [i \in 1..Len(others) |->
                     [user |-> others[i].id,
                      score |-> CosineSimilarity(
                                    VectorArray(BuildUserVector(user)),
                                    VectorArray(BuildUserVector(others[i])))]]
         IN  Slice(SortDesc(similarities), top_similar)

RECURSIVE PeerVotesWithRated(_, _, _)
\* The inner loop without the skip of the treks the target has rated.
PeerVotesWithRated(peer, peer_ratings, user_rated_treks) ==
    IF peer_ratings = <<>> THEN <<>>
    ELSE LET rating == Head(peer_ratings)
             rest == PeerVotesWithRated(peer, Tail(peer_ratings),
                                        user_rated_treks)
         IN  IF TrekQueryGet(rating.trek_id).id = None THEN rest
             ELSE <<[trek |-> rating.trek_id,
                     weighted_score |-> rating.rating * peer.score,
                     similar_user |-> peer.user,
                     rating |-> rating.rating]>> \o rest

RECURSIVE PeerVotes(_, _, _)
\* The inner loop of collaborative_filtering_recommend over one peer's
\* ratings: the ratings that are accumulated, in order.
PeerVotes(peer, peer_ratings, user_rated_treks) ==
    IF peer_ratings = <<>> THEN <<>>
    ELSE LET rating == Head(peer_ratings)
             rest == PeerVotes(peer, Tail(peer_ratings), user_rated_treks)
         IN  IF rating.trek_id \in user_rated_treks THEN rest
             ELSE IF TrekQueryGet(rating.trek_id).id = None THEN rest
             ELSE <<[trek |-> rating.trek_id,
                     weighted_score |-> rating.rating * peer.score,
                     similar_user |-> peer.user,
                     rating |-> rating.rating]>> \o rest

RECURSIVE AllVotes(_, _)
\* The outer loop: the accumulated ratings of every peer, in order.
AllVotes(similar_users, user_rated_treks) ==
    IF similar_users = <<>> THEN <<>>
    ELSE PeerVotes(Head(similar_users), RatingsOf(Head(similar_users).user),
                   user_rated_treks)
         \o AllVotes(Tail(similar_users), user_rated_treks)

RECURSIVE Accumulate(_, _)
\* The recommendations dict after the votes: one [trek, score, votes,
\* similar_users] per trek, in the order the treks were first met.
Accumulate(recommendations, votes) ==
    IF votes = <<>> THEN recommendations
    ELSE LET v == Head(votes)
             known == \E i \in 1..Len(recommendations) :
                          recommendations[i].trek = v.trek
             started ==
                 IF known THEN recommendations
                 ELSE Append(recommendations,
                             [trek |-> v.trek, score |-> 0, votes |-> 0,
                              similar_users |-> <<>>])
             added ==
                 [i \in 1..Len(started) |->
                     IF started[i].trek = v.trek
                     THEN [trek |-> v.trek,
                           score |-> started[i].score + v.weighted_score,
                           votes |-> started[i].votes + 1,
                           similar_users |->
                               Append(started[i].similar_users,
                                      <<v.similar_user, v.rating>>)]
                     ELSE started[i]]
         IN  Accumulate(added, Tail(votes))

\* collaborative_filtering_recommend as a normalized weighted average: the
\* accumulated score divided by the sum of the voters' similarities.
CollaborativeFilteringRecommendNormalized(user, all_treks, all_users, top_k) ==
    LET similar_users == FindSimilarUsers(user, all_users, TopSimilar)
        user_rated_treks == {r.trek_id : r \in {x \in ratings : x.user_id = user.id}}
        recommendations ==
            Accumulate(<<>>, AllVotes(similar_users, user_rated_treks))
        voted == SelectSeq(recommendations, LAMBDA data : data.votes > 0)
        SimilarityOf(peer_id) ==
            similar_users[CHOOSE j \in 1..Len(similar_users) :
                              similar_users[j].user = peer_id].score
        SimilaritySumOf(data) ==
            SumSeq([j \in 1..Len(data.similar_users) |->
                       SimilarityOf(data.similar_users[j][1])])
        result ==
            [i \in 1..Len(voted) |->
                [trek |-> voted[i].trek,
                 score |-> IF SimilaritySumOf(voted[i]) = 0 THEN 0
                           ELSE Div(voted[i].score * Scale,
                                    SimilaritySumOf(voted[i])),
                 similar_users |-> voted[i].similar_users]]
    IN  Slice(SortDesc(result), top_k)

\* collaborative_filtering_recommend
CollaborativeFilteringRecommend(user, all_treks, all_users, top_k) ==
    LET similar_users == FindSimilarUsers(user, all_users, TopSimilar)
        user_rated_treks == {r.trek_id : r \in {x \in ratings : x.user_id = user.id}}
        recommendations ==
            Accumulate(<<>>, AllVotes(similar_users, user_rated_treks))
        voted == SelectSeq(recommendations, LAMBDA data : data.votes > 0)
        result ==
            [i \in 1..Len(voted) |->
                [trek |-> voted[i].trek,
                 score |-> Div(voted[i].score, voted[i].votes),
                 similar_users |-> voted[i].similar_users]]
    IN  Slice(SortDesc(result), top_k)

(* ---------------------------- Hybrid Blender ---------------------------- *)

\* weights=None: the caller gave no weights.
NoWeights ==
    [content_based |-> None, collaborative |-> None, knowledge_based |-> None]

\* The default blend weights 0.40 / 0.30 / 0.30.
DefaultWeights ==
    [content_based |-> 400, collaborative |-> 300, knowledge_based |-> 300]

\* scores.get(trek_id, 1): a trek absent from a list read as the score 1.
ScoreGetAbsentAsOne(recs, trek_id) ==
    IF \E i \in 1..Len(recs) : recs[i].trek = trek_id
    THEN recs[CHOOSE i \in 1..Len(recs) : recs[i].trek = trek_id].score
    ELSE Scale

\* {trek.id: score for trek, score, _ in recs}.get(trek_id, 0)
ScoreGet(recs, trek_id) ==
    IF \E i \in 1..Len(recs) : recs[i].trek = trek_id
    THEN recs[CHOOSE i \in 1..Len(recs) : recs[i].trek = trek_id].score
    ELSE 0

\* max(scores.values()) if scores else 1
MaxScore(recs) ==
    IF recs = <<>> THEN 1 ELSE MaxSeq([i \in 1..Len(recs) |-> recs[i].score])

\* (scores.get(trek_id, 0) / max) if max > 0 else 0
Normalized(recs, trek_id) ==
    IF MaxScore(recs) > 0
    THEN Div(ScoreGet(recs, trek_id) * Scale, MaxScore(recs))
    ELSE 0

RECURSIVE IdsAscending(_, _)
\* The ids of a set within 1..n as a list.  The code iterates a Python set
\* of small ints, which yields them in ascending order.
IdsAscending(ids, n) ==
    IF n = 0 THEN <<>>
    ELSE IdsAscending(ids, n - 1) \o (IF n \in ids THEN <<n>> ELSE <<>>)

\* The blend of hybrid_recommend, from the three strategies' lists on.
HybridBlend(content_recs, collab_recs, knowledge_recs, weights, top_k) ==
    LET all_trek_ids ==
            {content_recs[i].trek : i \in 1..Len(content_recs)}
            \cup {collab_recs[i].trek : i \in 1..Len(collab_recs)}
            \cup {knowledge_recs[i].trek : i \in 1..Len(knowledge_recs)}
        Combined(trek_id) ==
            LET content_norm == Normalized(content_recs, trek_id)
                collab_norm == Normalized(collab_recs, trek_id)
                knowledge_norm == Normalized(knowledge_recs, trek_id)
            IN  [trek |-> trek_id,
                 score |-> FMul(content_norm, weights.content_based)
                           + FMul(collab_norm, weights.collaborative)
                           + FMul(knowledge_norm, weights.knowledge_based),
                 weights |-> weights,
                 content_based |-> content_norm,
                 collaborative |-> collab_norm,
                 knowledge_based |-> knowledge_norm]
        hybrid_scores ==
            { <<ids, [i \in 1..Len(ids) |-> Combined(ids[i])]>> :
                ids \in {SelectSeq(IdsAscending(all_trek_ids, Len(treks)),
                                   LAMBDA id : TrekQueryGet(id).id # None)} }
    IN  Slice(SortDesc((CHOOSE h \in hybrid_scores : TRUE)[2]), top_k)

\* hybrid_recommend applying the weights as given, without dividing them by
\* their sum.
HybridRecommendAsGiven(user, all_treks, all_users, top_k, given_weights) ==
    LET given == IF given_weights = NoWeights THEN DefaultWeights
                 ELSE given_weights
        total_weight ==
            given.content_based + given.collaborative + given.knowledge_based
        blends ==
            { HybridBlend(content_recs, collab_recs, knowledge_recs, w, top_k) :
                content_recs \in
                    {ContentBasedRecommend(user, all_treks, top_k * 2)},
                collab_recs \in
                    {CollaborativeFilteringRecommend(user, all_treks, all_users,
                                                     top_k * 2)},
                knowledge_recs \in
                    {KnowledgeBasedRecommend(user, all_treks, top_k * 2)},
                w \in {given} }
    IN  IF total_weight = 0 THEN [err |-> TRUE, out |-> <<>>]
        ELSE [err |-> FALSE, out |-> CHOOSE out \in blends : TRUE]

\* hybrid_recommend asking each strategy for top_k candidates, not 2 x top_k.
HybridRecommendNarrow(user, all_treks, all_users, top_k, given_weights) ==
    LET given == IF given_weights = NoWeights THEN DefaultWeights
                 ELSE given_weights
        total_weight ==
            given.content_based + given.collaborative + given.knowledge_based
        weights ==
            [content_based |-> Div(given.content_based * Scale, total_weight),
             collaborative |-> Div(given.collaborative * Scale, total_weight),
             knowledge_based |-> Div(given.knowledge_based * Scale, total_weight)]
        blends ==
            { HybridBlend(content_recs, collab_recs, knowledge_recs, w, top_k) :
                content_recs \in
                    {ContentBasedRecommend(user, all_treks, top_k)},
                collab_recs \in
                    {CollaborativeFilteringRecommend(user, all_treks, all_users,
                                                     top_k)},
                knowledge_recs \in
                    {KnowledgeBasedRecommend(user, all_treks, top_k)},
                w \in {weights} }
    IN  IF total_weight = 0 THEN [err |-> TRUE, out |-> <<>>]
        ELSE [err |-> FALSE, out |-> CHOOSE out \in blends : TRUE]

\* hybrid_recommend: [err, out], err when the call raises (the division by a
\* zero total_weight), else out is the returned list.
HybridRecommend(user, all_treks, all_users, top_k, given_weights) ==
    LET given == IF given_weights = NoWeights THEN DefaultWeights
                 ELSE given_weights
        total_weight ==
            given.content_based + given.collaborative + given.knowledge_based
        weights ==
            [content_based |-> Div(given.content_based * Scale, total_weight),
             collaborative |-> Div(given.collaborative * Scale, total_weight),
             knowledge_based |-> Div(given.knowledge_based * Scale, total_weight)]
        \* Each list is computed once, then blended.
        blends ==
            { HybridBlend(content_recs, collab_recs, knowledge_recs, w, top_k) :
                content_recs \in
                    {ContentBasedRecommend(user, all_treks, top_k * 2)},
                collab_recs \in
                    {CollaborativeFilteringRecommend(user, all_treks, all_users,
                                                     top_k * 2)},
                knowledge_recs \in
                    {KnowledgeBasedRecommend(user, all_treks, top_k * 2)},
                w \in {weights} }
    IN  IF total_weight = 0 THEN [err |-> TRUE, out |-> <<>>]
        ELSE [err |-> FALSE, out |-> CHOOSE out \in blends : TRUE]

(* ------------------------------- inputs --------------------------------- *)

\* The user rows the service is run with: the i-th user registered.
SampleUsers ==
    <<[id |-> 1, experience_level |-> "Beginner", fitness_level |-> "Moderate",
       altitude_experience |-> 1500, budget_max |-> 1500, available_days |-> 7,
       cultural_interest |-> 900, nature_interest |-> 700,
       adventure_interest |-> 400, preferred_seasons |-> {"Spring"}],
      [id |-> 2, experience_level |-> "Expert", fitness_level |-> "High",
       altitude_experience |-> 6000, budget_max |-> 5000, available_days |-> 21,
       cultural_interest |-> 500, nature_interest |-> 800,
       adventure_interest |-> 1000, preferred_seasons |-> {}],
      [id |-> 3, experience_level |-> "Intermediate", fitness_level |-> "High",
       altitude_experience |-> 3900, budget_max |-> 3000, available_days |-> 14,
       cultural_interest |-> 700, nature_interest |-> 900,
       adventure_interest |-> 800, preferred_seasons |-> {"Spring", "Autumn"}],
      [id |-> 4, experience_level |-> "Expert", fitness_level |-> "High",
       altitude_experience |-> 6000, budget_max |-> 0, available_days |-> 10,
       cultural_interest |-> 500, nature_interest |-> 800,
       adventure_interest |-> 1000, preferred_seasons |-> {"Winter"}]>>

\* The trek rows the catalog is loaded from: the i-th trek of the catalog.
SampleTreks ==
    <<[id |-> 1, difficulty |-> "Easy", duration_days |-> 7,
       max_altitude |-> 3000, cost_min |-> 600,
       best_seasons |-> {"Spring", "Autumn", "Winter"},
       cultural_score |-> 850, nature_score |-> 850, adventure_score |-> 600],
      [id |-> 2, difficulty |-> "Very Hard", duration_days |-> 18,
       max_altitude |-> 6000, cost_min |-> 3000,
       best_seasons |-> {"Spring", "Autumn"},
       cultural_score |-> 500, nature_score |-> 800, adventure_score |-> 1000],
      [id |-> 3, difficulty |-> "Moderate", duration_days |-> 14,
       max_altitude |-> 5400, cost_min |-> 1200,
       best_seasons |-> {"Spring", "Autumn"},
       cultural_score |-> 800, nature_score |-> 900, adventure_score |-> 800],
      [id |-> 4, difficulty |-> "Easy", duration_days |-> 7,
       max_altitude |-> 3000, cost_min |-> 900,
       best_seasons |-> {},
       cultural_score |-> 850, nature_score |-> 850, adventure_score |-> 600]>>

\* The rating values posted to /ratings: SampleRatings[u][t] is the value user
\* u gives trek t, so a ratings table is determined by the pairs rated.
SampleRatings ==
    <<<<5, 2, 4, 3>>,
      <<3, 5, 4, 1>>,
      <<2, 4, 5, 3>>,
      <<2, 4, 5, 1>>>>

\* The top_k arguments of the calls (10 is the default).
TopKs == {1, 10}

\* The weights arguments of hybrid_recommend: none, weights that need
\* re-normalizing, weights of mixed sign and positive sum, weights of sum
\* zero, and weights of negative sum.
WeightArguments ==
    {NoWeights,
     [content_based |-> 1000, collaborative |-> 1000, knowledge_based |-> 2000],
     [content_based |-> 2000, collaborative |-> 0 - 500, knowledge_based |-> 0 - 500],
     [content_based |-> 500, collaborative |-> 0 - 500, knowledge_based |-> 0],
     [content_based |-> 0 - 400, collaborative |-> 0 - 300, knowledge_based |-> 0 - 300]}

(* ------------------------------- the calls ------------------------------ *)

\* No request is being answered.
Idle ==
    [op |-> "idle", user |-> 0, trek |-> 0, top_k |-> 0, weights |-> NoWeights,
     err |-> FALSE, out |-> <<>>, pass |-> FALSE]

\* No hybrid request is between loading its rows and scoring.
NoFlight ==
    [user |-> 0, top_k |-> 0, all_treks |-> <<>>, all_users |-> <<>>,
     expected |-> <<>>]

\* RecommendationEngine.__init__: self.cache = {}
EmptyCache == {}

\* A request and its answer.
Answer(op, user_id, top_k, weights, err, out) ==
    [op |-> op, user |-> user_id, trek |-> 0, top_k |-> top_k,
     weights |-> weights, err |-> err, out |-> out, pass |-> FALSE]

\* init_database: the catalog is loaded, there are no users and no ratings.
Init ==
    /\ \E n \in 0..MaxTreks : treks = SubSeq(SampleTreks, 1, n)
    /\ users = <<>>
    /\ ratings = {}
    /\ res = Idle
    /\ cache = EmptyCache
    /\ first = Idle
    /\ flight = NoFlight

\* create_user (POST /users)
CreateUser ==
    /\ res = Idle
    /\ Len(users) < MaxUsers
    /\ users' = Append(users, SampleUsers[Len(users) + 1])
    /\ UNCHANGED <<treks, ratings, res, cache, first, flight>>

\* create_rating (POST /ratings)
CreateRating(user_id, trek_id, rating) ==
    /\ res = Idle
    /\ Cardinality(ratings) < MaxRatings
    /\ ~ \E r \in ratings : r.user_id = user_id /\ r.trek_id = trek_id
    /\ ratings' = ratings \cup
           {[user_id |-> user_id, trek_id |-> trek_id, rating |-> rating]}
    /\ UNCHANGED <<treks, users, res, cache, first, flight>>

\* GET /recommend/content-based/<user_id>: rec_engine.content_based_recommend
ContentBased(user_id, top_k) ==
    /\ res = Idle
    /\ res' = Answer("content", user_id, top_k, NoWeights, FALSE,
                     ContentBasedRecommend(users[user_id], treks, top_k))
    /\ UNCHANGED <<treks, users, ratings, cache, first, flight>>

\* GET /recommend/collaborative/<user_id>:
\* rec_engine.collaborative_filtering_recommend
Collaborative(user_id, top_k) ==
    /\ res = Idle
    /\ res' = Answer("collaborative", user_id, top_k, NoWeights, FALSE,
                     CollaborativeFilteringRecommend(users[user_id], treks,
                                                     users, top_k))
    /\ UNCHANGED <<treks, users, ratings, cache, first, flight>>

\* GET /recommend/knowledge-based/<user_id>:
\* rec_engine.knowledge_based_recommend
KnowledgeBased(user_id, top_k) ==
    /\ res = Idle
    /\ res' = Answer("knowledge", user_id, top_k, NoWeights, FALSE,
                     KnowledgeBasedRecommend(users[user_id], treks, top_k))
    /\ UNCHANGED <<treks, users, ratings, cache, first, flight>>

\* rec_engine.hybrid_recommend, with the weights the caller gives (the route
\* GET /recommend/hybrid/<user_id> gives none).
Hybrid(user_id, top_k, weights) ==
    /\ res = Idle
    /\ \E r \in {HybridRecommend(users[user_id], treks, users, top_k, weights)} :
           res' = Answer("hybrid", user_id, top_k, weights, r.err, r.out)
    /\ UNCHANGED <<treks, users, ratings, cache, first, flight>>

\* _meets_hard_constraints applied to one user and one trek.
CheckConstraints(user_id, trek_id) ==
    /\ res = Idle
    /\ res' = [op |-> "filter", user |-> user_id, trek |-> trek_id,
               top_k |-> 0, weights |-> NoWeights, err |-> FALSE,
               out |-> <<>>,
               pass |-> MeetsHardConstraints(users[user_id], treks[trek_id])]
    /\ UNCHANGED <<treks, users, ratings, cache, first, flight>>

\* The answer is sent; the service waits for the next request.
Respond ==
    /\ res # Idle
    /\ res' = Idle
    /\ first' = Idle
    /\ flight' = NoFlight
    /\ UNCHANGED <<treks, users, ratings, cache>>

Next ==
    \/ CreateUser
    \/ \E u \in 1..Len(users), t \in 1..Len(treks) :
           CreateRating(u, t, SampleRatings[u][t])
    \/ \E u \in 1..Len(users), k \in TopKs : ContentBased(u, k)
    \/ \E u \in 1..Len(users), k \in TopKs : Collaborative(u, k)
    \/ \E u \in 1..Len(users), k \in TopKs : KnowledgeBased(u, k)
    \/ \E u \in 1..Len(users), k \in TopKs, w \in WeightArguments :
           Hybrid(u, k, w)
    \/ Respond

Spec == Init /\ [][Next]_vars


(* ------------------- one user and one trek, in breadth ------------------ *)

\* The user rows of the pair specification.
PairUsers ==
    [id : {1},
     experience_level : {"Beginner", "Advanced", "None"},
     fitness_level : {"Moderate"},
     altitude_experience : {0, 3000},
     budget_max : {0, 1000, 2000},
     available_days : {7, 14},
     cultural_interest : {0, 700},
     nature_interest : {500},
     adventure_interest : {500},
     preferred_seasons : {{}, {"Spring", "Autumn"}}]

\* The trek rows of the pair specification.
PairTreks ==
    [id : {1},
     difficulty : {"Easy", "Hard", "Very Hard", "None"},
     duration_days : {7, 13},
     max_altitude : {0, 3000},
     cost_min : {0, 1500},
     best_seasons : {{}, {"Spring"}, {"Spring", "Autumn"}, {"Winter"}},
     cultural_score : {0, 700},
     nature_score : {500},
     adventure_score : {500}]

\* A store of one user and one trek.
InitPair ==
    /\ \E t \in PairTreks : treks = <<t>>
    /\ \E u \in PairUsers : users = <<u>>
    /\ ratings = {}
    /\ res = Idle
    /\ cache = EmptyCache
    /\ first = Idle
    /\ flight = NoFlight

\* _calculate_soft_penalty applied to one user and one trek.
SoftPenalty(user_id, trek_id) ==
    /\ res = Idle
    /\ res' = [Answer("penalty", user_id, 0, NoWeights, FALSE,
                       CalculateSoftPenalty(users[user_id], treks[trek_id]))
                   EXCEPT !.trek = trek_id]
    /\ UNCHANGED <<treks, users, ratings, cache, first, flight>>

\* _build_trek_vector applied to one trek.
TrekVector(user_id, trek_id) ==
    /\ res = Idle
    /\ res' = [Answer("vector", user_id, 0, NoWeights, FALSE,
                       BuildTrekVector(treks[trek_id]))
                   EXCEPT !.trek = trek_id]
    /\ UNCHANGED <<treks, users, ratings, cache, first, flight>>

\* _score_seasonal_fit applied to one user and one trek.
SeasonalFit(user_id, trek_id) ==
    /\ res = Idle
    /\ res' = [Answer("seasonal", user_id, 0, NoWeights, FALSE,
                       ScoreSeasonalFit(users[user_id], treks[trek_id]))
                   EXCEPT !.trek = trek_id]
    /\ UNCHANGED <<treks, users, ratings, cache, first, flight>>

\* _score_difficulty_progression applied to one user and one trek.
DifficultyProgression(user_id, trek_id) ==
    /\ res = Idle
    /\ res' = [Answer("difficulty", user_id, 0, NoWeights, FALSE,
                       ScoreDifficultyProgression(users[user_id],
                                                  treks[trek_id]))
                   EXCEPT !.trek = trek_id]
    /\ UNCHANGED <<treks, users, ratings, cache, first, flight>>

NextPair ==
    \/ CheckConstraints(1, 1)
    \/ DifficultyProgression(1, 1)
    \/ KnowledgeBased(1, 10)
    \/ SoftPenalty(1, 1)
    \/ TrekVector(1, 1)
    \/ SeasonalFit(1, 1)
    \/ Respond

SpecPair == InitPair /\ [][NextPair]_vars


(* --------------------------- a call made twice -------------------------- *)

\* The four entry points of the engine.
Strategies == {"content", "collaborative", "knowledge", "hybrid"}

\* The call that was answered is made again with the same arguments, nothing
\* having been written since: the same engine method runs on the same rows.
Again ==
    /\ res.op \in Strategies
    /\ first = Idle
    /\ first' = res
    /\ \E r \in { CASE res.op = "content" ->
                       [err |-> FALSE,
                        out |-> ContentBasedRecommend(users[res.user], treks,
                                                      res.top_k)]
                    [] res.op = "collaborative" ->
                       [err |-> FALSE,
                        out |-> CollaborativeFilteringRecommend(
                                    users[res.user], treks, users, res.top_k)]
                    [] res.op = "knowledge" ->
                       [err |-> FALSE,
                        out |-> KnowledgeBasedRecommend(users[res.user], treks,
                                                        res.top_k)]
                    [] OTHER ->
                       HybridRecommend(users[res.user], treks, users,
                                       res.top_k, res.weights) } :
           res' = Answer(res.op, res.user, res.top_k, res.weights, r.err, r.out)
    /\ UNCHANGED <<treks, users, ratings, cache, flight>>

NextTwice ==
    \/ CreateUser
    \/ \E u \in 1..Len(users), t \in 1..Len(treks) :
           CreateRating(u, t, SampleRatings[u][t])
    \/ \E u \in 1..Len(users), k \in TopKs : ContentBased(u, k)
    \/ \E u \in 1..Len(users), k \in TopKs : Collaborative(u, k)
    \/ \E u \in 1..Len(users), k \in TopKs : KnowledgeBased(u, k)
    \/ \E u \in 1..Len(users), k \in TopKs, w \in WeightArguments :
           Hybrid(u, k, w)
    \/ Again
    \/ Respond

SpecTwice == Init /\ [][NextTwice]_vars


(* ------------------ a hybrid request among other requests -------------- *)

\* GET /recommend/hybrid/<user_id>, up to the call of the engine: the user,
\* Trek.query.all() and User.query.all() are loaded.  The ratings are not:
\* User.ratings is a lazy relationship, read when the engine first touches it.
\* expected is the list the engine returns from the store as it is now.
HybridLoad(user_id, top_k) ==
    /\ res = Idle
    /\ flight = NoFlight
    /\ flight' = [user |-> user_id, top_k |-> top_k,
                  all_treks |-> treks, all_users |-> users,
                  expected |-> HybridRecommend(users[user_id], treks, users,
                                               top_k, NoWeights).out]
    /\ UNCHANGED <<treks, users, ratings, res, cache, first>>

\* The rest of the request: rec_engine.hybrid_recommend runs on the rows that
\* were loaded and reads the ratings, and Trek.query.get, from the store as it
\* is by then.  The loads of the ratings are taken at one instant.
HybridScore ==
    /\ res = Idle
    /\ flight # NoFlight
    /\ \E r \in {HybridRecommend(flight.all_users[flight.user],
                                 flight.all_treks, flight.all_users,
                                 flight.top_k, NoWeights)} :
           res' = Answer("hybrid", flight.user, flight.top_k, NoWeights,
                         r.err, r.out)
    /\ UNCHANGED <<treks, users, ratings, cache, first, flight>>

\* The other requests are served while the hybrid request is in progress.
NextSnapshot ==
    \/ CreateUser
    \/ \E u \in 1..Len(users), t \in 1..Len(treks) :
           CreateRating(u, t, SampleRatings[u][t])
    \/ \E u \in 1..Len(users), k \in TopKs : HybridLoad(u, k)
    \/ HybridScore
    \/ Respond

SpecSnapshot == Init /\ [][NextSnapshot]_vars


(* --------------------------- degenerate inputs -------------------------- *)

\* rec_engine.collaborative_filtering_recommend called with an empty
\* population.
CollaborativeAlone(user_id, top_k) ==
    /\ res = Idle
    /\ res' = Answer("collaborative-alone", user_id, top_k, NoWeights, FALSE,
                     CollaborativeFilteringRecommend(users[user_id], treks,
                                                     <<>>, top_k))
    /\ UNCHANGED <<treks, users, ratings, cache, first, flight>>

\* create_rating does not look the trek up: a rating can name a trek that has
\* no row.  The four entry points are called on the empty catalog, and the
\* collaborative strategy with an empty population on any catalog.
NextDegenerate ==
    \/ CreateUser
    \/ \E u \in 1..Len(users), t \in 1..MaxTreks :
           CreateRating(u, t, SampleRatings[u][t])
    \/ treks = <<>> /\ \E u \in 1..Len(users), k \in TopKs : ContentBased(u, k)
    \/ treks = <<>> /\ \E u \in 1..Len(users), k \in TopKs : Collaborative(u, k)
    \/ treks = <<>> /\ \E u \in 1..Len(users), k \in TopKs : KnowledgeBased(u, k)
    \/ treks = <<>> /\ \E u \in 1..Len(users), k \in TopKs,
                          w \in WeightArguments : Hybrid(u, k, w)
    \/ \E u \in 1..Len(users), k \in TopKs : CollaborativeAlone(u, k)
    \/ Respond

SpecDegenerate == Init /\ [][NextDegenerate]_vars


(* ----------------------------- the explainer ---------------------------- *)
(* src/app/explainability/lime_explainer.py.  A contribution x is the       *)
(* integer x * Scale.  The templated text is a rendering of the two top     *)
(* lists and is not modelled apart from them.                               *)

\* TrekExplainer.feature_weights, and the order in which
\* _calculate_feature_contributions inserts the features.
Features ==
    <<"difficulty_match", "budget_match", "altitude_match", "duration_match",
      "cultural_interest", "nature_interest", "season_match">>

FeatureWeights ==
    [difficulty_match |-> 250, budget_match |-> 200, altitude_match |-> 150,
     duration_match |-> 120, cultural_interest |-> 100,
     nature_interest |-> 100, season_match |-> 80]

\* difficulty_map.get(user.experience_level, 2)
ExplainUserTier(level) ==
    CASE level = "Beginner" -> 1
      [] level = "Intermediate" -> 2
      [] level = "Advanced" -> 3
      [] level = "Expert" -> 4
      [] OTHER -> 2

\* trek_diff_map.get(trek.difficulty, 2)
ExplainTrekTier(difficulty) ==
    CASE difficulty = "Easy" -> 1
      [] difficulty = "Moderate" -> 2
      [] difficulty = "Challenging" -> 3
      [] difficulty = "Strenuous" -> 4
      [] OTHER -> 2

\* _calculate_max_safe_altitude
CalculateMaxSafeAltitude(user) ==
    LET base_altitude ==
            CASE user.experience_level = "Beginner" -> 4000
              [] user.experience_level = "Intermediate" -> 5000
              [] user.experience_level = "Advanced" -> 5500
              [] user.experience_level = "Expert" -> 6000
              [] OTHER -> 4000
        fitness_bonus ==
            CASE user.fitness_level = "Low" -> 0 - 500
              [] user.fitness_level = "Moderate" -> 0
              [] user.fitness_level = "High" -> 500
              [] user.fitness_level = "Very High" -> 1000
              [] OTHER -> 0
    IN  base_altitude + fitness_bonus

\* _calculate_feature_contributions with every feature's full weight,
\* whatever the user and the trek.
CalculateFeatureContributionsFlat(user, trek) ==
    [err |-> FALSE, out |-> FeatureWeights]

\* _calculate_feature_contributions.  Trek has no attribute
\* cultural_interest or nature_interest (models.py): reading it raises
\* AttributeError, and `user.x and trek.x` reads it whenever user.x is truthy.
CalculateFeatureContributions(user, trek) ==
    LET w == FeatureWeights
        diff_delta == Abs(ExplainUserTier(user.experience_level)
                          - ExplainTrekTier(trek.difficulty))
        difficulty ==
            IF diff_delta = 0 THEN w.difficulty_match
            ELSE IF diff_delta = 1 THEN Div(w.difficulty_match * 5, 10)
            ELSE 0 - Div(w.difficulty_match * 3, 10)
        budget ==
            IF Truthy(trek.cost_min) /\ Truthy(user.budget_max)
            THEN IF trek.cost_min <= user.budget_max
                 THEN w.budget_match
                      - Div(w.budget_match * trek.cost_min * 5,
                            Max(user.budget_max, 1) * 10)
                 ELSE 0 - Min(Div(w.budget_match
                                  * (trek.cost_min - user.budget_max),
                                  Max(user.budget_max, 1)),
                              w.budget_match)
            ELSE 0
        altitude_diff == trek.max_altitude - CalculateMaxSafeAltitude(user)
        altitude ==
            IF Truthy(trek.max_altitude)
            THEN IF altitude_diff <= 0 THEN w.altitude_match
                 ELSE IF altitude_diff <= 500
                      THEN Div(w.altitude_match * 6, 10)
                 ELSE 0 - Div(w.altitude_match * 5, 10)
            ELSE 0
        duration_diff == Abs(trek.duration_days - user.available_days)
        duration ==
            IF Truthy(trek.duration_days) /\ Truthy(user.available_days)
            THEN IF duration_diff = 0 THEN w.duration_match
                 ELSE IF duration_diff <= 2
                      THEN Div(w.duration_match * 7, 10)
                 ELSE 0 - Div(w.duration_match * 4, 10)
            ELSE 0
    IN  IF Truthy(user.cultural_interest) \/ Truthy(user.nature_interest)
        THEN [err |-> TRUE, out |-> <<>>]
        ELSE [err |-> FALSE,
              out |-> [difficulty_match |-> difficulty,
                       budget_match |-> budget,
                       altitude_match |-> altitude,
                       duration_match |-> duration,
                       cultural_interest |-> 0,
                       nature_interest |-> 0,
                       season_match |-> Div(w.season_match * 5, 10)]]

\* sorted(feature_contributions.items(), key=lambda x: abs(x[1]),
\* reverse=True): a stable sort, equal magnitudes stay in insertion order.
SortedFeatures(c) ==
    LET n == Len(Features)
        Before(i, j) ==
            \/ Abs(c[Features[i]]) > Abs(c[Features[j]])
            \/ Abs(c[Features[i]]) = Abs(c[Features[j]]) /\ i < j
        Rank(j) == 1 + Cardinality({i \in 1..n : Before(i, j)})
    IN  [k \in 1..n |->
            LET j == CHOOSE j \in 1..n : Rank(j) = k
            IN  <<Features[j], c[Features[j]]>>]

\* list[:n]
Take(s, n) == SubSeq(s, 1, Min(n, Len(s)))

IsPositive(item) == item[2] > 0

IsNegative(item) == item[2] < 0

\* explain_recommendation cutting the sorted list without regard to sign.
ExplainRecommendationUnsigned(user, trek, final_score) ==
    LET c == CalculateFeatureContributions(user, trek)
    IN  IF c.err THEN c
        ELSE [err |-> FALSE,
              out |-> [final_score |-> final_score,
                       algorithm |-> "Hybrid",
                       top_positive_features |-> Take(SortedFeatures(c.out), 3),
                       top_negative_features |-> Take(SortedFeatures(c.out), 2),
                       feature_contributions |-> c.out]]

\* explain_recommendation
ExplainRecommendation(user, trek, final_score) ==
    LET c == CalculateFeatureContributions(user, trek)
    IN  IF c.err THEN c
        ELSE LET sorted_features == SortedFeatures(c.out)
                 positive == SelectSeq(sorted_features, IsPositive)
                 negative == SelectSeq(sorted_features, IsNegative)
             IN  [err |-> FALSE,
                  out |-> [final_score |-> final_score,
                           algorithm |-> "Hybrid",
                           top_positive_features |-> Take(positive, 3),
                           top_negative_features |-> Take(negative, 2),
                           feature_contributions |-> c.out]]

\* GET /explain/<user_id>/<trek_id>: 404 for an unknown user or trek, 500
\* when the explainer raises, else the payload for the score 0.8.
Explain(user_id, trek_id) ==
    /\ res = Idle
    /\ IF user_id > Len(users) \/ trek_id > Len(treks)
       THEN res' = [Answer("explain", user_id, 0, NoWeights, TRUE, <<>>)
                       EXCEPT !.trek = trek_id]
       ELSE \E r \in {ExplainRecommendation(users[user_id], treks[trek_id],
                                            800)} :
               res' = [Answer("explain", user_id, 0, NoWeights, r.err, r.out)
                          EXCEPT !.trek = trek_id]
    /\ UNCHANGED <<treks, users, ratings, cache, first, flight>>

\* The users asking for an explanation, in breadth.
ExplainUsers ==
    [id : {1},
     experience_level : {"Beginner", "Intermediate", "Expert", "None"},
     fitness_level : {"Low", "Moderate", "Very High"},
     altitude_experience : {3000},
     budget_max : {0, 1000, 2000},
     available_days : {7, 14},
     cultural_interest : {0, 500},
     nature_interest : {0, 500},
     adventure_interest : {500},
     preferred_seasons : {{"Spring", "Autumn"}}]

\* The treks explained, in breadth.
ExplainTreks ==
    [id : {1},
     difficulty : {"Easy", "Moderate", "Hard", "Strenuous"},
     duration_days : {7, 9, 13},
     max_altitude : {0, 3500, 5364, 6200},
     cost_min : {0, 1500},
     best_seasons : {{"Spring"}},
     cultural_score : {700},
     nature_score : {500},
     adventure_score : {500}]

InitExplain ==
    /\ \E t \in ExplainTreks : treks = <<t>>
    /\ \E u \in ExplainUsers : users = <<u>>
    /\ ratings = {}
    /\ res = Idle
    /\ cache = EmptyCache
    /\ first = Idle
    /\ flight = NoFlight

NextExplain ==
    \/ \E user_id \in 1..2, trek_id \in 1..2 : Explain(user_id, trek_id)
    \/ Respond

SpecExplain == InitExplain /\ [][NextExplain]_vars


(* ---------------------------- peer discovery ---------------------------- *)

\* The profiles the population is drawn from: users of equal profile are
\* equally similar to anyone.
PeerProfiles == 1..3

\* A population of PeerCount users, the user at place i with id i, in which
\* every user but at most one has rated trek 1.
InitPeers ==
    /\ treks = SubSeq(SampleTreks, 1, 1)
    /\ \E profile \in [1..PeerCount -> PeerProfiles] :
           users = [i \in 1..PeerCount |->
                       [SampleUsers[profile[i]] EXCEPT !.id = i]]
    /\ \E unrated \in {{}, {1}, {2}, {PeerCount}} :
           ratings = {[user_id |-> u, trek_id |-> 1,
                       rating |-> SampleRatings[1][1]] :
                         u \in (1..PeerCount) \ unrated}
    /\ res = Idle
    /\ cache = EmptyCache
    /\ first = Idle
    /\ flight = NoFlight

\* _find_similar_users as collaborative_filtering_recommend calls it.
FindPeers(user_id) ==
    /\ res = Idle
    /\ res' = Answer("peers", user_id, 0, NoWeights, FALSE,
                     FindSimilarUsers(users[user_id], users, TopSimilar))
    /\ UNCHANGED <<treks, users, ratings, cache, first, flight>>

NextPeers ==
    \/ \E user_id \in {1, PeerCount \div 2} : FindPeers(user_id)
    \/ Respond

SpecPeers == InitPeers /\ [][NextPeers]_vars


(* --------------------------- a catalog in order ------------------------- *)

\* The profiles the catalog is drawn from: treks of equal profile get equal
\* scores.
CatalogProfiles == 1..Len(SampleTreks)

\* The list lengths asked for: shorter than, equal to and longer than what
\* the catalog can give.
CatalogTopKs == {1, CatalogSize - 1, 10}

\* A catalog of CatalogSize treks, the trek at place i with id i, and one
\* user.
InitCatalog ==
    /\ \E profile \in [1..CatalogSize -> CatalogProfiles] :
           treks = [i \in 1..CatalogSize |->
                       [SampleTreks[profile[i]] EXCEPT !.id = i]]
    /\ \E u \in 1..Len(SampleUsers) :
           users = <<[SampleUsers[u] EXCEPT !.id = 1]>>
    /\ ratings = {}
    /\ res = Idle
    /\ cache = EmptyCache
    /\ first = Idle
    /\ flight = NoFlight

NextCatalog ==
    \/ \E k \in CatalogTopKs : ContentBased(1, k)
    \/ Respond

SpecCatalog == InitCatalog /\ [][NextCatalog]_vars


(* ------------------------- incomplete profiles -------------------------- *)
(* A user column may hold NULL.  Where the code computes with such a value  *)
(* the call raises, and the route answers 500.                              *)

\* _build_user_vector raises TypeError: user.altitude_experience / 6000.0
\* with altitude_experience None.
BuildUserVectorRaises(user) == user.altitude_experience = None

\* cosine_similarity raises on an array that holds None: the user vector
\* carries the three interests as they are.
CosineSimilarityRaises(user) ==
    \/ user.cultural_interest = None
    \/ user.nature_interest = None
    \/ user.adventure_interest = None

\* _score_interest_alignment raises TypeError: user.x_interest - score with
\* x_interest None.
ScoreInterestAlignmentRaises(user) ==
    \/ user.cultural_interest = None
    \/ user.nature_interest = None
    \/ user.adventure_interest = None

\* content_based_recommend raises: at the user vector, before the loop, or
\* at the similarity of the first trek that passes the filter.
ContentBasedRecommendRaises(user, all_treks) ==
    \/ BuildUserVectorRaises(user)
    \/ /\ CosineSimilarityRaises(user)
       /\ \E i \in 1..Len(all_treks) : MeetsHardConstraints(user, all_treks[i])

\* knowledge_based_recommend raises: at the interest alignment of the first
\* trek that passes the filter.
KnowledgeBasedRecommendRaises(user, all_treks) ==
    /\ ScoreInterestAlignmentRaises(user)
    /\ \E i \in 1..Len(all_treks) : MeetsHardConstraints(user, all_treks[i])

\* _find_similar_users raises: not for a user without ratings, who gets []
\* at once; else at the user's vector, or at the vector or the similarity of
\* another user with ratings.
FindSimilarUsersRaises(user, all_users) ==
    /\ RatingsOf(user.id) # <<>>
    /\ \/ BuildUserVectorRaises(user)
       \/ \E i \in 1..Len(all_users) :
             /\ all_users[i].id # user.id
             /\ RatingsOf(all_users[i].id) # <<>>
             /\ \/ BuildUserVectorRaises(all_users[i])
                \/ CosineSimilarityRaises(user)
                \/ CosineSimilarityRaises(all_users[i])

\* GET /recommend/content-based/<user_id> for a profile that may be incomplete.
ContentBasedRequest(user_id, top_k) ==
    /\ res = Idle
    /\ IF ContentBasedRecommendRaises(users[user_id], treks)
       THEN res' = Answer("content", user_id, top_k, NoWeights, TRUE, <<>>)
       ELSE res' = Answer("content", user_id, top_k, NoWeights, FALSE,
                          ContentBasedRecommend(users[user_id], treks, top_k))
    /\ UNCHANGED <<treks, users, ratings, cache, first, flight>>

\* GET /recommend/knowledge-based/<user_id> for a profile that may be incomplete.
KnowledgeBasedRequest(user_id, top_k) ==
    /\ res = Idle
    /\ IF KnowledgeBasedRecommendRaises(users[user_id], treks)
       THEN res' = Answer("knowledge", user_id, top_k, NoWeights, TRUE, <<>>)
       ELSE res' = Answer("knowledge", user_id, top_k, NoWeights, FALSE,
                          KnowledgeBasedRecommend(users[user_id], treks, top_k))
    /\ UNCHANGED <<treks, users, ratings, cache, first, flight>>

\* GET /recommend/collaborative/<user_id> for a profile that may be
\* incomplete.
CollaborativeRequest(user_id, top_k) ==
    /\ res = Idle
    /\ IF FindSimilarUsersRaises(users[user_id], users)
       THEN res' = Answer("collaborative", user_id, top_k, NoWeights, TRUE,
                          <<>>)
       ELSE res' = Answer("collaborative", user_id, top_k, NoWeights, FALSE,
                          CollaborativeFilteringRecommend(users[user_id], treks,
                                                          users, top_k))
    /\ UNCHANGED <<treks, users, ratings, cache, first, flight>>

\* The profiles with optional attributes unset.
MissingUsers ==
    [id : {1},
     experience_level : {"None", "Beginner"},
     fitness_level : {"None", "Moderate"},
     altitude_experience : {None, 3000},
     budget_max : {2000},
     available_days : {14},
     cultural_interest : {None, 500},
     nature_interest : {None, 500},
     adventure_interest : {500},
     preferred_seasons : {{}, {"Spring"}}]

\* One user of an incomplete profile, one user of a complete one, and one
\* trek; either nobody has rated, or the first has rated trek 1 and the
\* second trek 2.
InitMissing ==
    /\ \E t \in 1..2 : treks = <<[SampleTreks[t] EXCEPT !.id = 1]>>
    /\ \E u \in MissingUsers : users = <<u, SampleUsers[2]>>
    /\ ratings \in {{},
                    {[user_id |-> 1, trek_id |-> 1,
                      rating |-> SampleRatings[1][1]],
                     [user_id |-> 2, trek_id |-> 2,
                      rating |-> SampleRatings[2][2]]}}
    /\ res = Idle
    /\ cache = EmptyCache
    /\ first = Idle
    /\ flight = NoFlight

NextMissing ==
    \/ \E k \in TopKs : ContentBasedRequest(1, k)
    \/ \E k \in TopKs : KnowledgeBasedRequest(1, k)
    \/ \E k \in TopKs : CollaborativeRequest(1, k)
    \/ Respond

SpecMissing == InitMissing /\ [][NextMissing]_vars


(* ------------------------------ the claims ------------------------------ *)

\* The user and the trek of the call being answered.
ResUser == users[res.user]

ResTrek == treks[res.trek]

\* The trek ids of a returned list.
TrekIds(list) == {list[i].trek : i \in 1..Len(list)}

\* The ordinal tiers as the specification orders them; 0 for a value that is
\* no tier.
ExperienceTier(level) ==
    CASE level = "Beginner" -> 1 [] level = "Intermediate" -> 2
      [] level = "Advanced" -> 3 [] level = "Expert" -> 4 [] OTHER -> 0

DifficultyTier(difficulty) ==
    CASE difficulty = "Easy" -> 1 [] difficulty = "Moderate" -> 2
      [] difficulty = "Hard" -> 3 [] difficulty = "Very Hard" -> 4 [] OTHER -> 0

\* A user and a trek C1 speaks of: budget and days set, both tiers mapped.
InFilterContract(user, trek) ==
    /\ user.budget_max >= 0
    /\ user.available_days >= 1
    /\ ExperienceTier(user.experience_level) > 0
    /\ DifficultyTier(trek.difficulty) > 0

\* The three failure conditions of the Constraint Filter as C1 states them.
ContractFails(user, trek) ==
    \/ trek.cost_min > user.budget_max
    \/ trek.duration_days > user.available_days
    \/ DifficultyTier(trek.difficulty) > ExperienceTier(user.experience_level) + 1

\* C1 (as claimed): the Constraint Filter fails exactly when the trek's
\* minimum cost exceeds the user's budget ceiling, or its duration exceeds the
\* user's available days, or its difficulty tier is more than one above the
\* user's experience tier; otherwise it passes.
C1_FilterContract ==
    (res.op = "filter" /\ InFilterContract(ResUser, ResTrek))
        => (res.pass <=> ~ContractFails(ResUser, ResTrek))

\* u2 differs from u1 only in a budget and available days that are no smaller.
RaisedBudgetAndDays(u1, u2) ==
    /\ u2.budget_max >= u1.budget_max
    /\ u2.available_days >= u1.available_days
    /\ [u2 EXCEPT !.budget_max = u1.budget_max,
                  !.available_days = u1.available_days] = u1

\* C2 (as claimed): the Constraint Filter is monotonic in budget and days:
\* when a user passes the filter for a trek, every user who differs only in a
\* budget and available days that are no smaller passes it for that trek too,
\* over all budgets from 0 up.
C2_FilterMonotonic ==
    (res.op = "filter" /\ res.pass /\ ResUser.budget_max >= 0)
        => \A u2 \in PairUsers :
               RaisedBudgetAndDays(ResUser, u2)
                   => MeetsHardConstraints(u2, ResTrek)

\* The ids of the catalog's treks that pass the filter for the user.
PassingIds(user) ==
    {id \in 1..Len(treks) : MeetsHardConstraints(user, treks[id])}

\* The trek costs at least one and a half times the user's positive budget.
OverBudgetByHalf(user, trek) ==
    user.budget_max > 0 /\ trek.cost_min * 2 >= user.budget_max * 3

\* C3: content_based_recommend and knowledge_based_recommend never return a
\* trek that fails the Constraint Filter (so none that is 50% over budget),
\* and with top_k at least the catalog size each returns exactly the treks of
\* the catalog that pass the filter, once each, so the two return the same set.
C3_FilterGate ==
    res.op \in {"content", "knowledge"} =>
        /\ \A id \in TrekIds(res.out) :
               /\ MeetsHardConstraints(ResUser, treks[id])
               /\ ~OverBudgetByHalf(ResUser, treks[id])
        /\ res.top_k >= Len(treks) =>
               /\ TrekIds(res.out) = PassingIds(ResUser)
               /\ Len(res.out) = Cardinality(PassingIds(ResUser))
               /\ TrekIds(ContentBasedRecommend(ResUser, treks, res.top_k))
                  = TrekIds(KnowledgeBasedRecommend(ResUser, treks, res.top_k))

\* C3's case: a strategy asked for the whole catalog returns some treks and
\* leaves out one that is 50% over the user's budget.
C3_Witness ==
    /\ res.op \in {"content", "knowledge"}
    /\ res.top_k >= Len(treks)
    /\ res.out # <<>>
    /\ \E id \in 1..Len(treks) :
           OverBudgetByHalf(ResUser, treks[id]) /\ id \notin TrekIds(res.out)

\* C4 (as claimed): no trek in the list returned by hybrid_recommend fails the
\* Constraint Filter for the target user.
C4_NeverSurfaced ==
    (res.op = "hybrid" /\ ~res.err) =>
        \A id \in TrekIds(res.out) : MeetsHardConstraints(ResUser, treks[id])

\* C4 (amended): a trek returned by hybrid_recommend that fails the Constraint
\* Filter for the target user has content-based and knowledge-based
\* components 0 and is one of the collaborative strategy's candidates: only
\* the peers' ratings surface it.
C4_SurfacedOnlyByPeers ==
    (res.op = "hybrid" /\ ~res.err) =>
        \A i \in 1..Len(res.out) :
            ~MeetsHardConstraints(ResUser, treks[res.out[i].trek]) =>
                /\ res.out[i].content_based = 0
                /\ res.out[i].knowledge_based = 0
                /\ res.out[i].trek \in
                       TrekIds(CollaborativeFilteringRecommend(
                                   ResUser, treks, users, res.top_k * 2))

\* C4's case: hybrid_recommend returns a trek that fails the filter.
C4_Witness ==
    /\ res.op = "hybrid"
    /\ ~res.err
    /\ \E id \in TrekIds(res.out) : ~MeetsHardConstraints(ResUser, treks[id])

\* The users who have rated something.
Raters == {r.user_id : r \in ratings}

\* C5: collaborative_filtering_recommend returns an empty list when the target
\* user has no ratings, and when no other user has any rating.
C5_NoRatingsNoList ==
    (res.op = "collaborative"
     /\ (res.user \notin Raters \/ Raters \subseteq {res.user}))
        => res.out = <<>>

\* C5's case: a target without ratings asks while another user has rated a
\* trek of the catalog.
C5_Witness ==
    /\ res.op = "collaborative"
    /\ res.user \notin Raters
    /\ Raters # {}
    /\ res.out = <<>>

\* The peers selected for the target of the call, with their similarities.
ResPeers == FindSimilarUsers(ResUser, users, TopSimilar)

\* The similarity of a selected peer.
PeerSimilarity(user_id) ==
    ResPeers[CHOOSE i \in 1..Len(ResPeers) : ResPeers[i].user = user_id].score

\* The selected peers' rating rows of a trek.
PeerRatings(trek_id) ==
    {r \in ratings :
        /\ r.trek_id = trek_id
        /\ \E i \in 1..Len(ResPeers) : ResPeers[i].user = r.user_id}

RECURSIVE WeightedSum(_)
\* The sum of rating x the rater's similarity over a set of rating rows.
WeightedSum(rows) ==
    IF rows = {} THEN 0
    ELSE LET r == CHOOSE x \in rows : TRUE
         IN  r.rating * PeerSimilarity(r.user_id) + WeightedSum(rows \ {r})

RECURSIVE SimilaritySum(_)
\* The sum of the raters' similarities over a set of rating rows.
SimilaritySum(rows) ==
    IF rows = {} THEN 0
    ELSE LET r == CHOOSE x \in rows : TRUE
         IN  PeerSimilarity(r.user_id) + SimilaritySum(rows \ {r})

\* C6: the score of a trek returned by collaborative_filtering_recommend is
\* the sum, over the selected peers' ratings of the trek, of rating x that
\* peer's similarity, divided by the number of those ratings.
C6_MeanOfWeightedRatings ==
    res.op = "collaborative" =>
        \A i \in 1..Len(res.out) :
            LET rows == PeerRatings(res.out[i].trek)
            IN  /\ rows # {}
                /\ res.out[i].score
                   = Div(WeightedSum(rows), Cardinality(rows))

\* C6's case: a returned trek that two peers rated, whose score, the sum
\* divided by the vote count, is not the sum divided by the sum of the
\* similarities.
C6_Witness ==
    /\ res.op = "collaborative"
    /\ \E i \in 1..Len(res.out) :
           LET rows == PeerRatings(res.out[i].trek)
           IN  /\ Cardinality(rows) >= 2
               /\ SimilaritySum(rows) > 0
               /\ res.out[i].score > 0
               /\ res.out[i].score
                  # Div(WeightedSum(rows) * Scale, SimilaritySum(rows))

\* C7: collaborative_filtering_recommend never returns a trek the target user
\* has rated.
C7_NeverAlreadyRated ==
    res.op = "collaborative" =>
        \A id \in TrekIds(res.out) :
            ~ \E r \in ratings : r.user_id = res.user /\ r.trek_id = id

\* C7's case: a peer has rated a trek the target has rated too, and the
\* target asks for recommendations and gets some.
C7_Witness ==
    /\ res.op = "collaborative"
    /\ res.out # <<>>
    /\ \E r \in ratings, p \in ratings :
           /\ r.user_id = res.user
           /\ p.user_id # res.user
           /\ p.trek_id = r.trek_id

\* A perfectly matched user and trek: the same tier, equal non-empty season
\* sets, identical interest and domain scores, altitude exposure equal to the
\* peak altitude.
PerfectMatch(user, trek) ==
    /\ ExperienceTier(user.experience_level) > 0
    /\ ExperienceTier(user.experience_level) = DifficultyTier(trek.difficulty)
    /\ user.preferred_seasons # {}
    /\ user.preferred_seasons = trek.best_seasons
    /\ user.cultural_interest = trek.cultural_score
    /\ user.nature_interest = trek.nature_score
    /\ user.adventure_interest = trek.adventure_score
    /\ user.altitude_experience = trek.max_altitude

\* C8 (as claimed): the knowledge-based total score of a trek that matches
\* the user perfectly is exactly 1.0.
C8_PerfectMatchScoresOne ==
    res.op = "knowledge" =>
        \A i \in 1..Len(res.out) :
            PerfectMatch(ResUser, treks[res.out[i].trek])
                => res.out[i].score = Scale

\* The sum of the three blend weights applied to an entry.
AppliedWeightSum(entry) ==
    entry.weights.content_based + entry.weights.collaborative
    + entry.weights.knowledge_based

\* The three normalized components of an entry are at most 1.
ComponentsAtMostOne(entry) ==
    /\ entry.content_based <= Scale
    /\ entry.collaborative <= Scale
    /\ entry.knowledge_based <= Scale

\* C9 (as claimed): with normalized components at most 1, the combined score
\* of a trek returned by hybrid_recommend never exceeds the sum of the three
\* weights applied, which is 1.0 after re-normalization.
C9_AtMostWeightSum ==
    (res.op = "hybrid" /\ ~res.err) =>
        \A i \in 1..Len(res.out) :
            ComponentsAtMostOne(res.out[i]) =>
                /\ res.out[i].score <= AppliedWeightSum(res.out[i])
                /\ AppliedWeightSum(res.out[i]) <= Scale

\* None of the three weights applied to an entry is negative.
WeightsNonNegative(entry) ==
    /\ entry.weights.content_based >= 0
    /\ entry.weights.collaborative >= 0
    /\ entry.weights.knowledge_based >= 0

\* C9 (amended): the same, when none of the three re-normalized weights
\* applied is negative.
C9_AtMostWeightSumNonNegative ==
    (res.op = "hybrid" /\ ~res.err) =>
        \A i \in 1..Len(res.out) :
            (ComponentsAtMostOne(res.out[i]) /\ WeightsNonNegative(res.out[i]))
                => /\ res.out[i].score <= AppliedWeightSum(res.out[i])
                   /\ AppliedWeightSum(res.out[i]) <= Scale

\* C9's case: hybrid_recommend, given weights that need re-normalizing and
\* are not negative, returns a trek that scores in all three strategies.
C9_Witness ==
    /\ res.op = "hybrid"
    /\ ~res.err
    /\ res.weights # NoWeights
    /\ \E i \in 1..Len(res.out) :
           /\ WeightsNonNegative(res.out[i])
           /\ res.out[i].content_based > 0
           /\ res.out[i].collaborative > 0
           /\ res.out[i].knowledge_based > 0

\* The sum of the weights the caller gave.
GivenWeightSum ==
    res.weights.content_based + res.weights.collaborative
    + res.weights.knowledge_based

\* C10 (as claimed): hybrid_recommend called with weights whose sum is zero
\* or negative ends in an error and returns no list.
C10_FailsFast ==
    (res.op = "hybrid" /\ res.weights # NoWeights /\ GivenWeightSum <= 0)
        => res.err

C12_Snapshot ==
    (res.op = "hybrid" /\ flight # NoFlight) => res.out = flight.expected

\* The weights of the call are the default ones or do not sum to zero.
WeightSumNotZero ==
    res.weights = NoWeights
    \/ res.weights.content_based + res.weights.collaborative
       + res.weights.knowledge_based # 0

C14_PenaltyRange ==
    res.op = "penalty" => (res.out >= 0 /\ res.out * 10 <= 3 * Scale)

\* C14's case: a trek over 0.9 of the budget and over 0.95 of the days, the
\* penalty at its cap 0.3.
C14_Witness ==
    /\ res.op = "penalty"
    /\ ResTrek.cost_min * 10 > 9 * ResUser.budget_max
    /\ ResTrek.duration_days * 10 > 9 * ResUser.available_days
    /\ res.out * 10 = 3 * Scale

\* A pressure term as the specification states it: 0.15 for a ratio x / y
\* over 0.9, 0.05 for one over 0.7, else 0.
PressureTerm(x, y) ==
    IF x * 10 > 9 * y THEN 150 ELSE IF x * 10 > 7 * y THEN 50 ELSE 0

\* C18 (as claimed): the soft penalty is min(cost term + duration term, 0.3),
\* both terms with the thresholds 0.9 and 0.7 and the increments 0.15 and
\* 0.05, on cost_min / budget and on duration / available days.
C18_SameThresholds ==
    (res.op = "penalty" /\ ResUser.budget_max > 0 /\ ResUser.available_days > 0)
        => res.out = Min(PressureTerm(ResTrek.cost_min, ResUser.budget_max)
                         + PressureTerm(ResTrek.duration_days,
                                        ResUser.available_days),
                         300)

\* C19 (as claimed): the seasonal fit is the Jaccard overlap of the trek's and
\* the user's season sets when both are non-empty, whatever the overlap, and
\* 0.7 when either is empty.
C19_Jaccard ==
    res.op = "seasonal" =>
        res.out = IF ResTrek.best_seasons = {} \/ ResUser.preferred_seasons = {}
                  THEN 700
                  ELSE Div(Cardinality(ResTrek.best_seasons
                                       \cap ResUser.preferred_seasons) * Scale,
                           Cardinality(ResTrek.best_seasons
                                       \cup ResUser.preferred_seasons))

\* C17 (as claimed): the trek vector has the six keys of the user vector,
\* experience and fitness from the difficulty map, altitude_exp =
\* min(max_altitude / 6000, 1) for every altitude from 0 up, and each domain
\* score the trek's own score whenever it is set, 0 included.
C17_TrekVector ==
    res.op = "vector" =>
        /\ DOMAIN res.out = DOMAIN BuildUserVector(ResUser)
        /\ res.out.experience = DifficultyMap(ResTrek.difficulty)
        /\ res.out.fitness = DifficultyMap(ResTrek.difficulty)
        /\ ResTrek.max_altitude >= 0 =>
               res.out.altitude_exp
               = Min(Div(ResTrek.max_altitude * Scale, 6000), Scale)
        /\ ResTrek.cultural_score >= 0 =>
               res.out.cultural_interest = ResTrek.cultural_score
        /\ ResTrek.nature_score >= 0 =>
               res.out.nature_interest = ResTrek.nature_score
        /\ ResTrek.adventure_score >= 0 =>
               res.out.adventure_interest = ResTrek.adventure_score

\* The payload of the explanation just returned.
Payload == res.out

Explained == res.op = "explain" /\ ~res.err

\* The safe ceiling as the specification states it.
StatedCeiling(user) ==
    (CASE user.experience_level = "Beginner" -> 4000
       [] user.experience_level = "Intermediate" -> 5000
       [] user.experience_level = "Advanced" -> 5500
       [] user.experience_level = "Expert" -> 6000)
    + (CASE user.fitness_level = "Low" -> 0 - 500
         [] user.fitness_level = "Moderate" -> 0
         [] user.fitness_level = "High" -> 500
         [] user.fitness_level = "Very High" -> 1000)

\* C15 (as claimed): the altitude contribution of an explanation is +0.15
\* when the trek's altitude is at most the user's safe ceiling, +0.09 when it
\* is at most 500 m over and -0.075 when further over.
C15_AltitudeRule ==
    (/\ Explained
     /\ ResUser.experience_level
            \in {"Beginner", "Intermediate", "Advanced", "Expert"}
     /\ ResTrek.max_altitude >= 0)
        => Payload.feature_contributions.altitude_match
           = IF ResTrek.max_altitude <= StatedCeiling(ResUser) THEN 150
             ELSE IF ResTrek.max_altitude <= StatedCeiling(ResUser) + 500
                  THEN 90
             ELSE 0 - 75

\* s holds <<feature, contribution>> pairs in non-increasing magnitude.
ByMagnitude(s) ==
    \A i \in 1..Len(s), j \in 1..Len(s) : i < j => Abs(s[i][2]) >= Abs(s[j][2])

\* s holds, of the features whose contribution has the sign picked out by
\* Keep, the largest in magnitude: every such feature left out is no larger
\* than every one listed, and none is left out while there is room.
LargestOfSign(s, limit, Keep(_)) ==
    LET c == Payload.feature_contributions
        listed == {s[i][1] : i \in 1..Len(s)}
        ofSign == {f \in DOMAIN c : Keep(c[f])}
    IN  /\ Len(s) = Min(limit, Cardinality(ofSign))
        /\ Cardinality(listed) = Len(s)
        /\ listed \subseteq ofSign
        /\ \A i \in 1..Len(s) : s[i][2] = c[s[i][1]]
        /\ \A f \in ofSign \ listed, g \in listed : Abs(c[f]) <= Abs(c[g])

StrictlyPositive(x) == x > 0

StrictlyNegative(x) == x < 0

\* C16: in a returned payload, top_positive_features holds at most 3
\* features, all strictly positive, top_negative_features at most 2, all
\* strictly negative; each list is in non-increasing magnitude and holds the
\* largest features of its sign, so a feature contributing 0 is in neither.
C16_TopFeatures ==
    Explained =>
        /\ Len(Payload.top_positive_features) <= 3
        /\ Len(Payload.top_negative_features) <= 2
        /\ ByMagnitude(Payload.top_positive_features)
        /\ ByMagnitude(Payload.top_negative_features)
        /\ LargestOfSign(Payload.top_positive_features, 3, StrictlyPositive)
        /\ LargestOfSign(Payload.top_negative_features, 2, StrictlyNegative)
        /\ \A f \in DOMAIN Payload.feature_contributions :
              Payload.feature_contributions[f] = 0 =>
                  /\ \A i \in 1..Len(Payload.top_positive_features) :
                        Payload.top_positive_features[i][1] # f
                  /\ \A i \in 1..Len(Payload.top_negative_features) :
                        Payload.top_negative_features[i][1] # f

\* C16's case: a payload with four positive contributions, cut to the three
\* largest, one negative contribution and two contributions of 0.
C16_Witness ==
    /\ Explained
    /\ Cardinality({f \in DOMAIN Payload.feature_contributions :
                       Payload.feature_contributions[f] > 0}) > 3
    /\ Len(Payload.top_positive_features) = 3
    /\ Len(Payload.top_negative_features) = 1
    /\ \E f \in DOMAIN Payload.feature_contributions :
          Payload.feature_contributions[f] = 0

\* The ids listed by a strategy.
Listed(recs) == {recs[i].trek : i \in 1..Len(recs)}

\* A strategy's component for a trek as the specification states it: the
\* trek's raw score in the list, 0 when it is absent, over the list's
\* largest raw score when that is positive, else 0.
StatedComponent(recs, trek_id) ==
    LET raw == IF trek_id \in Listed(recs)
               THEN recs[CHOOSE i \in 1..Len(recs) : recs[i].trek = trek_id].score
               ELSE 0
        largest == CHOOSE m \in {recs[i].score : i \in 1..Len(recs)} :
                       \A i \in 1..Len(recs) : recs[i].score <= m
    IN  IF recs # <<>> /\ largest > 0 THEN Div(raw * Scale, largest) ELSE 0

\* The stated blend holds of the answer out, given the three strategies'
\* lists of 2 x top_k candidates.
StatedBlend(out, top_k, content_recs, collab_recs, knowledge_recs) ==
    LET pool == Listed(content_recs) \cup Listed(collab_recs)
                \cup Listed(knowledge_recs)
    IN  /\ Listed(out) \subseteq pool
        /\ Len(out) = Min(top_k, Cardinality(pool))
        /\ \A i \in 1..Len(out) :
              /\ out[i].content_based
                 = StatedComponent(content_recs, out[i].trek)
              /\ out[i].collaborative
                 = StatedComponent(collab_recs, out[i].trek)
              /\ out[i].knowledge_based
                 = StatedComponent(knowledge_recs, out[i].trek)
              /\ out[i].score
                 = FMul(out[i].content_based, out[i].weights.content_based)
                   + FMul(out[i].collaborative, out[i].weights.collaborative)
                   + FMul(out[i].knowledge_based,
                          out[i].weights.knowledge_based)
              \* a trek of the pool is left out only for a score no higher
              /\ \A id \in pool \ Listed(out) :
                    FMul(StatedComponent(content_recs, id),
                         out[i].weights.content_based)
                    + FMul(StatedComponent(collab_recs, id),
                           out[i].weights.collaborative)
                    + FMul(StatedComponent(knowledge_recs, id),
                           out[i].weights.knowledge_based)
                    <= out[i].score

\* C20: in a hybrid answer each strategy's component of a trek is its raw
\* score in that strategy's list of 2 x top_k candidates (0 when absent)
\* over the list's maximum when positive, else 0; the score is the weighted
\* sum of the three components; a trek absent from a list is still scored,
\* and is left out of the answer only by the cut to the top_k scores.
C20_NormalizedBlend ==
    (res.op = "hybrid" /\ ~res.err) =>
        \E content_recs \in
               {ContentBasedRecommend(ResUser, treks, res.top_k * 2)},
           collab_recs \in
               {CollaborativeFilteringRecommend(ResUser, treks, users,
                                                res.top_k * 2)},
           knowledge_recs \in
               {KnowledgeBasedRecommend(ResUser, treks, res.top_k * 2)} :
            StatedBlend(res.out, res.top_k, content_recs, collab_recs,
                        knowledge_recs)

\* C20's case: a hybrid answer for top_k = 1, each strategy asked for 2, whose
\* trek is second in the content list (the list of 1 would not hold it) and
\* absent from a non-empty collaborative list.
C20_Witness ==
    /\ res.op = "hybrid"
    /\ ~res.err
    /\ res.top_k = 1
    /\ Len(res.out) = 1
    /\ Len(ContentBasedRecommend(ResUser, treks, 2)) = 2
    /\ ContentBasedRecommend(ResUser, treks, 2)[2].trek = res.out[1].trek
    /\ CollaborativeFilteringRecommend(ResUser, treks, users, 2) # <<>>
    /\ res.out[1].collaborative = 0
    /\ res.out[1].score > 0

\* The users _find_similar_users may return for the target of the answer:
\* every other user with at least one rating.
Eligible ==
    {u \in 1..Len(users) :
        u # res.user /\ \E r \in ratings : r.user_id = u}

\* The cosine similarity of the target's and user u's feature vectors.
SimilarityTo(u) ==
    CosineSimilarity(VectorArray(BuildUserVector(ResUser)),
                     VectorArray(BuildUserVector(users[u])))

\* C21: peer discovery returns at most 5 peers, never the target and never a
\* user without ratings; they are the 5 most similar eligible users in
\* non-increasing similarity, and of two equally similar eligible users the
\* one earlier in the population comes first (and is the one kept).
C21_TopFivePeers ==
    res.op = "peers" =>
        \E out \in {res.out},
           sim \in {[u \in Eligible |-> SimilarityTo(u)]} :
            \E listed \in {{out[i].user : i \in 1..Len(out)}} :
                /\ Len(out) <= 5
                /\ listed \subseteq Eligible
                /\ Cardinality(listed) = Len(out)
                /\ (\E r \in ratings : r.user_id = res.user)
                       => Len(out) = Min(5, Cardinality(Eligible))
                /\ \A i \in 1..Len(out) : out[i].score = sim[out[i].user]
                /\ \A i \in 1..Len(out), j \in 1..Len(out) :
                      i < j => \/ out[i].score > out[j].score
                               \/ /\ out[i].score = out[j].score
                                  /\ out[i].user < out[j].user
                /\ \A u \in Eligible \ listed : \A i \in 1..Len(out) :
                      \/ sim[u] < out[i].score
                      \/ sim[u] = out[i].score /\ out[i].user < u

\* C21's case: six eligible users cut to five, the user left out exactly as
\* similar as the last one kept, and two kept users of different similarity.
C21_Witness ==
    /\ res.op = "peers"
    /\ Cardinality(Eligible) = 6
    /\ Len(res.out) = 5
    /\ res.out[1].score > res.out[5].score
    /\ \E u \in Eligible :
          /\ \A i \in 1..5 : res.out[i].user # u
          /\ SimilarityTo(u) = res.out[5].score

\* The ids of the treks that pass the Constraint Filter for the target.
Passing == {t \in 1..Len(treks) : MeetsHardConstraints(ResUser, treks[t])}

\* C22: content_based_recommend returns at most top_k items in non-increasing
\* final score, similarity x (1 - penalty); they are the top_k highest-scoring
\* filter-passing treks, and returned treks of equal score are in catalog
\* order (of equal scores at the cut, the earlier trek is the one kept).
C22_TopKInOrder ==
    res.op = "content" =>
        \E out \in {res.out},
           final \in {[t \in Passing |-> ContentEntry(ResUser, treks[t]).score]} :
            \E listed \in {{out[i].trek : i \in 1..Len(out)}} :
                /\ Len(out) = Min(res.top_k, Cardinality(Passing))
                /\ listed \subseteq Passing
                /\ Cardinality(listed) = Len(out)
                /\ \A i \in 1..Len(out) :
                      /\ out[i].score = final[out[i].trek]
                      /\ out[i].score
                         = FMul(out[i].similarity,
                                Scale - CalculateSoftPenalty(
                                            ResUser, treks[out[i].trek]))
                /\ \A i \in 1..Len(out), j \in 1..Len(out) :
                      i < j => \/ out[i].score > out[j].score
                               \/ /\ out[i].score = out[j].score
                                  /\ out[i].trek < out[j].trek
                /\ \A t \in Passing \ listed : \A i \in 1..Len(out) :
                      \/ final[t] < out[i].score
                      \/ final[t] = out[i].score /\ out[i].trek < t

\* C22's case: three passing treks cut to two, the trek left out scoring
\* exactly as the second one returned, and the first one scoring higher.
C22_Witness ==
    /\ res.op = "content"
    /\ res.top_k = 2
    /\ Cardinality(Passing) = 3
    /\ Len(res.out) = 2
    /\ res.out[1].score > res.out[2].score
    /\ \E t \in Passing :
          /\ t # res.out[1].trek
          /\ t # res.out[2].trek
          /\ ContentEntry(ResUser, treks[t]).score = res.out[2].score

\* The item difficulty tiers as the specification orders them.
StatedTrekTier(difficulty) ==
    CASE difficulty = "Easy" -> 1
      [] difficulty = "Moderate" -> 2
      [] difficulty = "Hard" -> 3
      [] difficulty = "Very Hard" -> 4

\* The user experience tiers as the specification orders them.
StatedUserTier(level) ==
    CASE level = "Beginner" -> 1
      [] level = "Intermediate" -> 2
      [] level = "Advanced" -> 3
      [] level = "Expert" -> 4

\* C23 (as claimed): the difficulty contribution of an explanation is +0.25
\* for a gap of 0 between the user's tier and the trek's tier among Easy <
\* Moderate < Hard < Very Hard, +0.125 for a gap of 1 and -0.075 for more.
C23_DifficultyGap ==
    (/\ Explained
     /\ ResUser.experience_level
            \in {"Beginner", "Intermediate", "Advanced", "Expert"}
     /\ ResTrek.difficulty \in {"Easy", "Moderate", "Hard", "Very Hard"})
        => Payload.feature_contributions.difficulty_match
           = LET gap == Abs(StatedUserTier(ResUser.experience_level)
                            - StatedTrekTier(ResTrek.difficulty))
             IN  IF gap = 0 THEN 250 ELSE IF gap = 1 THEN 125 ELSE 0 - 75

\* An interest contribution as the specification states it: 0.10 x (1 - the
\* distance of the user's interest and the trek's score), 0 when either is
\* unset.
StatedInterest(interest, score) ==
    IF interest = None \/ score = None THEN 0
    ELSE FMul(100, Scale - Abs(interest - score))

\* C24 (as claimed): for every user and trek of the store the explanation
\* returns a payload, in which the cultural and the nature contribution are
\* 0.10 x (1 - |user interest - trek score|).
C24_InterestContributions ==
    (res.op = "explain" /\ res.user <= Len(users) /\ res.trek <= Len(treks))
        => /\ ~res.err
           /\ Payload.feature_contributions.cultural_interest
              = StatedInterest(ResUser.cultural_interest,
                               ResTrek.cultural_score)
           /\ Payload.feature_contributions.nature_interest
              = StatedInterest(ResUser.nature_interest, ResTrek.nature_score)

\* A tier of the specification's two orders, an unmapped or unset one being
\* the second.
StatedTier(name) ==
    CASE name \in {"Beginner", "Easy"} -> 1
      [] name \in {"Intermediate", "Moderate"} -> 2
      [] name \in {"Advanced", "Hard"} -> 3
      [] name \in {"Expert", "Very Hard"} -> 4
      [] OTHER -> 2

\* C25: the difficulty-progression sub-score is 1.0 when the trek's tier is
\* the user's, 0.8 when it is exactly one above, 0.3 when it is more than one
\* above and 0.6 when it is below, an unmapped tier being the second tier.
C25_DifficultyProgression ==
    res.op = "difficulty" =>
        LET item == StatedTier(ResTrek.difficulty)
            own == StatedTier(ResUser.experience_level)
        IN  /\ item = own => res.out = 1000
            /\ item = own + 1 => res.out = 800
            /\ item > own + 1 => res.out = 300
            /\ item < own => res.out = 600

\* C25's case: a trek of unmapped difficulty, taken as the second tier, one
\* above a Beginner.
C25_Witness ==
    /\ res.op = "difficulty"
    /\ ResTrek.difficulty = "None"
    /\ ResUser.experience_level = "Beginner"
    /\ res.out = 800

\* C28: no item returned by knowledge_based_recommend has the difficulty
\* sub-score 0.3; every difficulty_fit is 1.0, 0.8 or 0.6.
C28_NeverTooDifficult ==
    res.op = "knowledge" =>
        \A i \in 1..Len(res.out) :
            res.out[i].difficulty_fit \in {1000, 800, 600}

\* C28's case: a returned trek exactly one tier above the user, the highest
\* tier the Constraint Filter lets through.
C28_Witness ==
    /\ res.op = "knowledge"
    /\ Len(res.out) = 1
    /\ StatedTier(treks[res.out[1].trek].difficulty)
       = StatedTier(ResUser.experience_level) + 1
    /\ res.out[1].difficulty_fit = 800

\* C27: for a target user without ratings the collaborative component of
\* every item of a hybrid answer is 0, and with the default weights
\* (0.40 / 0.30 / 0.30) no hybrid score exceeds 0.70.
C27_ColdStartCeiling ==
    (res.op = "hybrid" /\ ~res.err /\ res.user \notin Raters) =>
        \A i \in 1..Len(res.out) :
            /\ res.out[i].collaborative = 0
            /\ res.weights = NoWeights => res.out[i].score * 10 <= 7 * Scale

\* C27's case: a hybrid answer under the default weights for a user without
\* ratings, while another user has rated the returned trek, which is the best
\* of both other strategies and scores exactly 0.70.
C27_Witness ==
    /\ res.op = "hybrid"
    /\ ~res.err
    /\ res.weights = NoWeights
    /\ res.user \notin Raters
    /\ res.out # <<>>
    /\ \E r \in ratings : r.trek_id = res.out[1].trek
    /\ res.out[1].content_based = Scale
    /\ res.out[1].knowledge_based = Scale
    /\ res.out[1].score * 10 = 7 * Scale

\* The target's profile lacks an optional attribute.
ProfileIncomplete ==
    \/ ResUser.experience_level = "None"
    \/ ResUser.fitness_level = "None"
    \/ ResUser.altitude_experience = None
    \/ ResUser.cultural_interest = None
    \/ ResUser.nature_interest = None
    \/ ResUser.adventure_interest = None
    \/ ResUser.preferred_seasons = {}

\* C26 (as claimed): for a user who lacks an optional attribute, the
\* content-based, the knowledge-based and the collaborative strategy complete
\* and return a list.
C26_NeverFails ==
    (res.op \in {"content", "knowledge", "collaborative"} /\ ProfileIncomplete)
        => ~res.err

=============================================================================
